---- MODULE Spec2Model ----
(***************************************************************************)
(* Call Log Dashboard (src/app.py): the data pipeline of the Streamlit     *)
(* script.  One run of the script is one action: load_excel on the         *)
(* uploaded workbook, the two sidebar filters, the KPIs and the data       *)
(* frames behind the charts and the top-5 table.  The calls that only      *)
(* render (streamlit, plotly) are not modelled, nor is the per-day frame   *)
(* of lines 92-94, which nothing else reads; of the status line (line 60)  *)
(* only whether it raises is.                                              *)
(*                                                                         *)
(* Values.  An optional value is a sequence of length 0 or 1: None, NaT    *)
(* and NaN are <<>>, a present value v is <<v>>.  A text is a sequence of  *)
(* one-character strings.  A timestamp is a number of minutes counted      *)
(* from 00:00 of a Monday (no cell of the model carries seconds; a day     *)
(* is a multiple of 30 minutes, so flooring to 30 minutes from this        *)
(* origin and from the epoch agree).                                       *)
(***************************************************************************)
EXTENDS Integers, Sequences, FiniteSets, TLC

VARIABLES
    uploaded_file,      \* <<>> or <<workbook>>: the file uploader's content
    status,             \* "idle" (no file), "ok", or the exception that ended the run
    df,                 \* load_excel's frame: its rows, in order
    df_columns,         \* ... and its column names
    assigned_options,   \* line 64
    direction_options,  \* line 67
    assigned_filter,    \* the multiselect's selection, line 65
    direction_filter,   \* line 68
    filtered_df,        \* line 71
    total_calls,        \* line 79
    total_duration,     \* line 80, a fraction [num, den] or NaN
    avg_duration,       \* line 81
    calls_by_hour,      \* lines 108-109: rows [hour_slot, count]
    hour_categories,    \* line 109: the categories of calls_by_hour["hour_slot"]
    heatmap_data,       \* lines 146-147: rows [dayofweek, hour_slot, count]
    top_longest         \* line 163

vars == <<uploaded_file, status, df, df_columns, assigned_options,
          direction_options, assigned_filter, direction_filter, filtered_df,
          total_calls, total_duration, avg_duration, calls_by_hour,
          hour_categories, heatmap_data, top_longest>>

None == <<>>
Some(v) == <<v>>
NaT == <<>>
\* A missing text cell (NaN in an object column).
NaN == "<NaN>"

\* ------------------------------------------------------------------ bounds
MaxParts == 4        \* pieces between colons of a duration text of SpecDuration
MaxSheets == 2       \* sheets of a workbook of SpecLoad
MaxRows == 2         \* rows of the sheet of Spec
MaxSlotRows == 2     \* rows of the sheet of SpecSlots
MaxTopRows == 6      \* rows of the sheet of SpecTop
MaxTies == 2         \* rows of SpecTop that share one duration

\* ------------------------------------------------------- to_seconds (13-18)
Digits == <<"0", "1", "2", "3", "4", "5", "6", "7", "8", "9">>
IsDigit(c) == \E d \in 1..10 : Digits[d] = c
DigitVal(c) == (CHOOSE d \in 1..10 : Digits[d] = c) - 1

\* str.split(":"): the pieces between the colons, empty pieces kept.
RECURSIVE SplitFrom(_, _, _)
SplitFrom(s, i, cur) ==
    IF i > Len(s) THEN <<cur>>
    ELSE IF s[i] = ":" THEN <<cur>> \o SplitFrom(s, i + 1, <<>>)
    ELSE SplitFrom(s, i + 1, Append(cur, s[i]))
split(s) == SplitFrom(s, 1, <<>>)

RECURSIVE Horner(_, _, _)
Horner(tok, i, acc) ==
    IF i > Len(tok) THEN acc
    ELSE Horner(tok, i + 1, acc * 10 + DigitVal(tok[i]))

\* int(tok) on a text of digits, "-", ":" and letters: an optional minus sign,
\* then one or more digits; anything else raises ValueError (None here).
\* Blanks, "+" and "_", which int() also reads, occur in no text of the model.
py_int(tok) ==
    LET neg == Len(tok) > 0 /\ tok[1] = "-"
        body == IF neg THEN Tail(tok) ELSE tok
    IN  IF body = <<>> \/ \E i \in 1..Len(body) : ~IsDigit(body[i])
        THEN None
        ELSE Some(IF neg THEN 0 - Horner(body, 1, 0) ELSE Horner(body, 1, 0))

\* A faulty to_seconds: the weights of minutes and seconds exchanged.
to_seconds_swapped(x) ==
    LET parts == split(x)
        ints == [i \in 1..Len(parts) |-> py_int(parts[i])]
    IN  IF Len(parts) # 3 \/ \E i \in 1..3 : ints[i] = None
        THEN None
        ELSE Some(ints[1][1] * 3600 + ints[2][1] + ints[3][1] * 60)

\* h, m, s = map(int, str(x).split(":")): the unpacking raises unless there are
\* exactly three pieces and int() reads each; the bare except returns None.
to_seconds(x) ==
    LET parts == split(x)
        ints == [i \in 1..Len(parts) |-> py_int(parts[i])]
    IN  IF Len(parts) # 3 \/ \E i \in 1..3 : ints[i] = None
        THEN None
        ELSE Some(ints[1][1] * 3600 + ints[2][1] * 60 + ints[3][1])

\* ------------------------------------------------------- cells and sheets
\* A duration cell: empty, or a text.  A timestamp cell: empty, a date-time,
\* or a text pandas cannot read as one.
NanCell == [k |-> "nan", s |-> <<>>, t |-> 0]
StrCell(s) == [k |-> "str", s |-> s, t |-> 0]
TsCell(t) == [k |-> "ts", s |-> <<>>, t |-> t]
TextCell == [k |-> "text", s |-> <<>>, t |-> 0]

\* .astype(str) on the duration column: NaN becomes the text "nan".
astype_str(cell) == IF cell.k = "str" THEN cell.s ELSE <<"n", "a", "n">>

\* pd.to_datetime(..., errors="coerce"): NaT for what is no date-time.
to_datetime(cell) == IF cell.k = "ts" THEN Some(cell.t) ELSE NaT

\* The rename of lines 30-36; any other column keeps its name.
rename(c) ==
    CASE c = "Call Type" -> "direction"
      [] c = "Call Start" -> "start"
      [] c = "Call End" -> "end"
      [] c = "Total Call Time (H:m:s)" -> "duration_str"
      [] c = "Assigned User" -> "assigned_to"
      [] OTHER -> c

Headers == {"Call Type", "Call Start", "Call End", "Total Call Time (H:m:s)",
            "Assigned User"}

\* The date column's values: a calendar date (a day number), NaT, or, for a
\* sheet without a start column, the sheet's name.
DateOf(day) == [k |-> "date", v |-> day]
DateNaT == [k |-> "NaT", v |-> 0]
DateLabel(sheet) == [k |-> "label", v |-> sheet]

MinutesPerDay == 24 * 60
\* .dt.date
dt_date(ts) == IF ts = NaT THEN DateNaT ELSE DateOf(ts[1] \div MinutesPerDay)

\* A cell of a raw row, NaN when the sheet has no such column.
CellOf(sheet, row, c) ==
    IF c \in sheet.columns
    THEN CASE c = "Call Type" -> row.direction
           [] c = "Assigned User" -> row.assigned_to
           [] c = "Call Start" -> row.start
           [] c = "Call End" -> row.end
           [] c = "Total Call Time (H:m:s)" -> row.duration_str
    ELSE IF c \in {"Call Type", "Assigned User"} THEN NaN ELSE NanCell

IsNa(sheet, row, c) ==
    IF c \in {"Call Type", "Assigned User"}
    THEN CellOf(sheet, row, c) = NaN
    ELSE CellOf(sheet, row, c).k = "nan"

\* df.dropna(how="all"), line 27: a row with no value in any column goes.
dropna_all(sheet) ==
    SelectSeq(sheet.rows,
              LAMBDA row : \E c \in sheet.columns : ~IsNa(sheet, row, c))

\* A faulty date: the sheet's name whenever the start gives no date.
SheetDateFallback(sheet, row) ==
    IF to_datetime(CellOf(sheet, row, "Call Start")) # NaT
    THEN dt_date(to_datetime(CellOf(sheet, row, "Call Start")))
    ELSE DateLabel(sheet.name)

\* Lines 38-41: the date of a row of a sheet.
SheetDate(sheet, row) ==
    IF "start" \in {rename(c) : c \in sheet.columns}
    THEN dt_date(to_datetime(CellOf(sheet, row, "Call Start")))
    ELSE DateLabel(sheet.name)

\* Lines 26-43 for one sheet: its rows, renamed, with the date column.
read_sheet(sheet) ==
    LET kept == dropna_all(sheet)
    IN  [i \in 1..Len(kept) |->
            [sheet |-> sheet.name,
             direction |-> CellOf(sheet, kept[i], "Call Type"),
             assigned_to |-> CellOf(sheet, kept[i], "Assigned User"),
             start |-> CellOf(sheet, kept[i], "Call Start"),
             end |-> CellOf(sheet, kept[i], "Call End"),
             duration_str |-> CellOf(sheet, kept[i], "Total Call Time (H:m:s)"),
             date |-> SheetDate(sheet, kept[i])]]

\* pd.concat(all_data, ignore_index=True), line 45
RECURSIVE concat(_)
concat(frames) ==
    IF frames = <<>> THEN <<>> ELSE Head(frames) \o concat(Tail(frames))

\* load_excel, lines 20-50.  final_df[...] of a column no sheet has raises
\* KeyError: [error |-> the exception, columns, rows].
load_excel(file) ==
    LET all_data == [i \in 1..Len(file) |-> read_sheet(file[i])]
        columns == UNION {{rename(c) : c \in file[i].columns} : i \in 1..Len(file)}
                       \cup {"date"}
        final_df == concat(all_data)
        raised == IF "duration_str" \notin columns THEN "KeyError: 'duration_str'"
                  ELSE IF "start" \notin columns THEN "KeyError: 'start'"
                  ELSE IF "end" \notin columns THEN "KeyError: 'end'"
                  ELSE ""
    IN  IF raised # ""
        THEN [error |-> raised, columns |-> columns, rows |-> <<>>]
        ELSE [error |-> "",
              columns |-> columns \cup {"duration_sec"},
              rows |-> [i \in 1..Len(final_df) |->
                  [idx |-> i,
                   sheet |-> final_df[i].sheet,
                   direction |-> final_df[i].direction,
                   assigned_to |-> final_df[i].assigned_to,
                   start |-> to_datetime(final_df[i].start),
                   end |-> to_datetime(final_df[i].end),
                   duration_str |-> final_df[i].duration_str,
                   duration_sec |-> to_seconds(astype_str(final_df[i].duration_str)),
                   date |-> final_df[i].date]]]

Range(f) == {f[i] : i \in DOMAIN f}

\* ------------------------------------------------ status line (line 60)
\* df['date'].min() and .max() compare the dates.  A column of calendar dates
\* only, or of sheet names only, compares; one that mixes them, or holds a NaT,
\* is an object column of unlike values, and whether min() raises TypeError
\* on it depends on the pandas build: both outcomes are possible.
status_line(rows) ==
    IF \/ \A i \in 1..Len(rows) : rows[i].date.k = "date"
       \/ \A i \in 1..Len(rows) : rows[i].date.k = "label"
    THEN {"ok"}
    ELSE {"ok", "TypeError"}

\* ------------------------------------------------ filters (lines 64-74)
\* df[col].dropna().unique(): the distinct values present, NaN left out.
options(rows, col) == {r[col] : r \in Range(rows)} \ {NaN}

\* A faulty filter: either test passing keeps the row.
apply_filter_or(rows, assigned, direction) ==
    SelectSeq(rows, LAMBDA r : r.assigned_to \in assigned \/ r.direction \in direction)

\* df[assigned_to.isin(...) & direction.isin(...)]: a boolean mask, so the rows
\* kept stay in order and unchanged.
apply_filter(rows, assigned, direction) ==
    SelectSeq(rows, LAMBDA r : r.assigned_to \in assigned /\ r.direction \in direction)

\* ---------------------------------------------------- KPIs (lines 79-81)
\* A number of minutes is a fraction num/den, or NaN.
Frac(n, d) == [nan |-> FALSE, num |-> n, den |-> d]
FracNaN == [nan |-> TRUE, num |-> 0, den |-> 1]

RECURSIVE SumSec(_)
\* Series.sum(): NaN skipped, 0 for no value at all.
SumSec(rows) ==
    IF rows = <<>> THEN 0
    ELSE (IF Head(rows).duration_sec = None THEN 0 ELSE Head(rows).duration_sec[1])
         + SumSec(Tail(rows))

\* Series.count(): the values that are not NaN.
CountSec(rows) == Len(SelectSeq(rows, LAMBDA r : r.duration_sec # None))

kpi_total_duration(rows) == Frac(SumSec(rows), 60)

\* A faulty average: the sum over every row, NaN or not.
kpi_avg_over_all(rows) ==
    IF Len(rows) > 0 THEN Frac(SumSec(rows), Len(rows) * 60) ELSE Frac(0, 1)

\* Series.mean() skips NaN in the sum and in the count; it is NaN when nothing
\* is left.
kpi_avg_duration(rows) ==
    IF Len(rows) > 0
    THEN IF CountSec(rows) = 0 THEN FracNaN
         ELSE Frac(SumSec(rows), CountSec(rows) * 60)
    ELSE Frac(0, 1)

\* ------------------------------------------- half-hour slots (101-109)
SlotFreq == 30
SlotStart == 570     \* "09:30"
SlotEnd == 1110      \* "18:30"

\* A faulty floor: to the hour.
floor60(ts) == ts - (ts % 60)

\* .dt.floor("30min")
floor30(ts) == ts - (ts % SlotFreq)

\* .strftime("%I:%M %p"): the hour of the 12-hour clock and the minute, both
\* written with two digits, and AM or PM.
strftime(ts) ==
    LET h == (ts % MinutesPerDay) \div 60
    IN  [I |-> IF h % 12 = 0 THEN 12 ELSE h % 12,
         M |-> ts % 60,
         p |-> IF h < 12 THEN "AM" ELSE "PM"]

\* The order of two such texts as Python compares strings: the fields have a
\* fixed width, so the texts compare as (I, M, p) and "AM" < "PM".
LabelLess(a, b) ==
    \/ a.I < b.I
    \/ a.I = b.I /\ a.M < b.M
    \/ a.I = b.I /\ a.M = b.M /\ a.p = "AM" /\ b.p = "PM"

\* pd.date_range("09:30", "18:30", freq="30min").strftime(...).tolist()
valid_hours ==
    [i \in 1..((SlotEnd - SlotStart) \div SlotFreq + 1) |->
        strftime(SlotStart + (i - 1) * SlotFreq)]

\* df["start"].dt.floor("30min").dt.strftime("%I:%M %p"): NaN for NaT.
hour_slot(start) == IF start = NaT THEN None ELSE Some(strftime(floor30(start[1])))

\* df_hour[df_hour["hour_slot"].isin(valid_hours)]
in_valid_hours(rows) ==
    SelectSeq(rows, LAMBDA r : /\ hour_slot(r.start) # None
                               /\ hour_slot(r.start)[1] \in Range(valid_hours))

RECURSIVE SortLabels(_)
\* The group keys in groupby's order (sort=True): ascending as texts.
SortLabels(S) ==
    IF S = {} THEN <<>>
    ELSE LET m == CHOOSE x \in S : \A y \in S \ {x} : LabelLess(x, y)
         IN  <<m>> \o SortLabels(S \ {m})

\* A frame with a row for every category, empty ones counted 0.
calls_by_hour_dense(rows) ==
    LET kept == in_valid_hours(rows)
    IN  [i \in 1..Len(valid_hours) |->
            [hour_slot |-> valid_hours[i],
             count |-> Cardinality({j \in 1..Len(kept) :
                                      hour_slot(kept[j].start)[1] = valid_hours[i]})]]

\* groupby("hour_slot").size().reset_index(name="count"): one row per slot that
\* occurs, with the number of rows in it.
calls_by_hour_of(rows) ==
    LET kept == in_valid_hours(rows)
        keys == SortLabels({hour_slot(kept[j].start)[1] : j \in 1..Len(kept)})
    IN  [i \in 1..Len(keys) |->
            [hour_slot |-> keys[i],
             count |-> Cardinality({j \in 1..Len(kept) :
                                      hour_slot(kept[j].start)[1] = keys[i]})]]

\* ------------------------------------------------- heatmap (136-147)
DayNames == <<"Monday", "Tuesday", "Wednesday", "Thursday", "Friday",
              "Saturday", "Sunday">>
\* .dt.day_name(); day 0 of the timestamps is a Monday.
day_name(ts) == DayNames[((ts \div MinutesPerDay) % 7) + 1]

valid_days == <<"Monday", "Tuesday", "Wednesday", "Thursday", "Friday", "Saturday">>

\* The day names in the order of their texts.
DayRank(d) ==
    CASE d = "Friday" -> 1 [] d = "Monday" -> 2 [] d = "Saturday" -> 3
      [] d = "Sunday" -> 4 [] d = "Thursday" -> 5 [] d = "Tuesday" -> 6
      [] d = "Wednesday" -> 7

CellLess(a, b) ==
    \/ DayRank(a.dayofweek) < DayRank(b.dayofweek)
    \/ a.dayofweek = b.dayofweek /\ LabelLess(a.hour_slot, b.hour_slot)

RECURSIVE SortCells(_)
SortCells(S) ==
    IF S = {} THEN <<>>
    ELSE LET m == CHOOSE x \in S : \A y \in S \ {x} : CellLess(x, y)
         IN  <<m>> \o SortCells(S \ {m})

\* A faulty day filter: every day of the week passes.
in_any_day(rows) == SelectSeq(rows, LAMBDA r : r.start # NaT)

\* df_heat[df_heat["dayofweek"].isin(valid_days)]; NaT has no day name.
in_valid_days(rows) ==
    SelectSeq(rows, LAMBDA r : /\ r.start # NaT
                               /\ day_name(r.start[1]) \in Range(valid_days))

\* groupby(["dayofweek", "hour_slot"]).size().reset_index(name="count")
heatmap_of(rows) ==
    LET kept == in_valid_hours(in_valid_days(rows))
        key(r) == [dayofweek |-> day_name(r.start[1]),
                   hour_slot |-> hour_slot(r.start)[1]]
        keys == SortCells({key(kept[j]) : j \in 1..Len(kept)})
    IN  [i \in 1..Len(keys) |->
            [dayofweek |-> keys[i].dayofweek,
             hour_slot |-> keys[i].hour_slot,
             count |-> Cardinality({j \in 1..Len(kept) : key(kept[j]) = keys[i]})]]

\* ------------------------------------------- top 5 longest (163-164)
HeadN == 5

Keys(S) == {r.duration_sec[1] : r \in S}

RECURSIVE DescOrders(_)
\* Every order of the rows S (none NaN) with the durations descending.  The
\* sort is kind="quicksort", numpy's default, which is not stable: rows of
\* equal duration come out in an order the build decides.
DescOrders(S) ==
    IF S = {} THEN {<<>>}
    ELSE LET top == {r \in S : \A k \in Keys(S) : k <= r.duration_sec[1]}
         IN  UNION {{<<r>> \o rest : rest \in DescOrders(S \ {r})} : r \in top}

RECURSIVE AscOrders(_)
AscOrders(S) ==
    IF S = {} THEN {<<>>}
    ELSE LET low == {r \in S : \A k \in Keys(S) : r.duration_sec[1] <= k}
         IN  UNION {{<<r>> \o rest : rest \in AscOrders(S \ {r})} : r \in low}

\* A faulty sort: ascending.
sort_values_asc(rows) ==
    LET nan_rows == SelectSeq(rows, LAMBDA r : r.duration_sec = None)
    IN  {o \o nan_rows : o \in AscOrders({r \in Range(rows) : r.duration_sec # None})}

\* sort_values(by="duration_sec", ascending=False): na_position="last" puts the
\* NaN rows after the others, in the order they had.
sort_values(rows) ==
    LET nan_rows == SelectSeq(rows, LAMBDA r : r.duration_sec = None)
    IN  {o \o nan_rows : o \in DescOrders({r \in Range(rows) : r.duration_sec # None})}

\* .head(n)
head(rows, n) == SubSeq(rows, 1, IF Len(rows) < n THEN Len(rows) ELSE n)

top_longest_of(rows) == {head(o, HeadN) : o \in sort_values(rows)}

\* ------------------------------------------------------------ the script
NoViews ==
    /\ filtered_df' = <<>>
    /\ total_calls' = 0
    /\ total_duration' = Frac(0, 1)
    /\ avg_duration' = Frac(0, 1)
    /\ calls_by_hour' = <<>>
    /\ hour_categories' = <<>>
    /\ heatmap_data' = <<>>
    /\ top_longest' = <<>>

\* Lines 57-174 with `file` in the uploader.  The multiselects show their
\* default, every option, when `fresh`; else the selection (assigned, direction).
\* An exception ends the run where it is raised.
RunScript(file, fresh, assigned, direction) ==
    LET loaded == load_excel(file)
        a_opts == options(loaded.rows, "assigned_to")
        d_opts == options(loaded.rows, "direction")
        a_sel == IF fresh THEN a_opts ELSE assigned
        d_sel == IF fresh THEN d_opts ELSE direction
        kept == apply_filter(loaded.rows, a_sel, d_sel)
    IN  /\ uploaded_file' = Some(file)
        /\ df_columns' = loaded.columns
        /\ df' = loaded.rows
        /\ IF loaded.error # ""
           THEN /\ status' = loaded.error
                /\ assigned_options' = {} /\ assigned_filter' = {}
                /\ direction_options' = {} /\ direction_filter' = {}
                /\ NoViews
           ELSE \E shown \in status_line(loaded.rows) :
                IF shown # "ok"
                THEN /\ status' = shown
                     /\ assigned_options' = {} /\ assigned_filter' = {}
                     /\ direction_options' = {} /\ direction_filter' = {}
                     /\ NoViews
                ELSE IF "assigned_to" \notin loaded.columns
                THEN /\ status' = "KeyError: 'assigned_to'"
                     /\ assigned_options' = {} /\ assigned_filter' = {}
                     /\ direction_options' = {} /\ direction_filter' = {}
                     /\ NoViews
                ELSE IF "direction" \notin loaded.columns
                THEN /\ status' = "KeyError: 'direction'"
                     /\ assigned_options' = a_opts /\ assigned_filter' = a_sel
                     /\ direction_options' = {} /\ direction_filter' = {}
                     /\ NoViews
                ELSE /\ status' = "ok"
                     /\ assigned_options' = a_opts /\ assigned_filter' = a_sel
                     /\ direction_options' = d_opts /\ direction_filter' = d_sel
                     /\ filtered_df' = kept
                     /\ total_calls' = Len(kept)
                     /\ total_duration' = kpi_total_duration(kept)
                     /\ avg_duration' = kpi_avg_duration(kept)
                     /\ calls_by_hour' = calls_by_hour_of(kept)
                     /\ hour_categories' = valid_hours
                     /\ heatmap_data' = heatmap_of(kept)
                     /\ top_longest' \in top_longest_of(kept)

\* Line 177: nothing uploaded, only the hint is shown.
Init ==
    /\ uploaded_file = None
    /\ status = "idle"
    /\ df = <<>>
    /\ df_columns = {}
    /\ assigned_options = {} /\ assigned_filter = {}
    /\ direction_options = {} /\ direction_filter = {}
    /\ filtered_df = <<>>
    /\ total_calls = 0
    /\ total_duration = Frac(0, 1)
    /\ avg_duration = Frac(0, 1)
    /\ calls_by_hour = <<>>
    /\ hour_categories = <<>>
    /\ heatmap_data = <<>>
    /\ top_longest = <<>>

\* The user puts a workbook, one of `files`, in the uploader (line 55).
Upload(files) ==
    /\ uploaded_file = None
    /\ \E file \in files : RunScript(file, TRUE, {}, {})

\* The user changes the "Assigned User(s)" selection: the script runs again.
SelectAssigned(S) ==
    /\ status = "ok"
    /\ S \subseteq assigned_options
    /\ S # assigned_filter
    /\ RunScript(uploaded_file[1], FALSE, S, direction_filter)

\* The user changes the "Direction(s)" selection.
SelectDirection(S) ==
    /\ status = "ok"
    /\ S \subseteq direction_options
    /\ S # direction_filter
    /\ RunScript(uploaded_file[1], FALSE, assigned_filter, S)

\* The user takes the file out of the uploader.
RemoveFile ==
    /\ uploaded_file # None
    /\ uploaded_file' = None
    /\ status' = "idle"
    /\ df' = <<>>
    /\ df_columns' = {}
    /\ assigned_options' = {} /\ assigned_filter' = {}
    /\ direction_options' = {} /\ direction_filter' = {}
    /\ NoViews

\* ------------------------------------------------------------ workbooks
SeqsUpTo(S, n) == UNION {[1..k -> S] : k \in 0..n}

Row(direction, assigned_to, start, end, duration_str) ==
    [direction |-> direction, assigned_to |-> assigned_to, start |-> start,
     end |-> end, duration_str |-> duration_str]

Sheet(name, columns, rows) == [name |-> name, columns |-> columns, rows |-> rows]

SheetName(i) == <<"Sheet", i>>

Monday0945 == 9 * 60 + 45

\* Spec: one sheet, every column; direction and user vary, NaN included.
FilterRows ==
    {Row(d, a, TsCell(Monday0945), TsCell(Monday0945 + 5), NanCell) :
        d \in {"Incoming", "Outgoing", NaN}, a \in {"Asha", "Ravi", NaN}}
FilterWorkbooks ==
    {<<Sheet(SheetName(1), Headers, rows)>> : rows \in SeqsUpTo(FilterRows, MaxRows)}

\* SpecDuration: one row; its duration cell is empty, or up to MaxParts
\* pieces from Pieces joined by colons.
Pieces == {<<>>, <<"7">>, <<"0", "5">>, <<"-", "1">>, <<"a">>}
RECURSIVE join(_)
join(parts) ==
    IF Len(parts) = 1 THEN parts[1]
    ELSE parts[1] \o <<":">> \o join(Tail(parts))
Texts == {join(parts) : parts \in SeqsUpTo(Pieces, MaxParts) \ {<<>>}}
DurationWorkbooks ==
    {<<Sheet(SheetName(1), Headers,
             <<Row("Incoming", "Asha", TsCell(Monday0945), TsCell(Monday0945 + 5), c)>>)>> :
        c \in {StrCell(t) : t \in Texts} \cup {NanCell}}

\* SpecSlots: one sheet; the start varies over the edges of the business
\* hours on a Monday, some times of a Saturday and a Sunday, a text and an
\* empty cell.
MondayMinutes == {9 * 60 + 29, 9 * 60 + 30, 9 * 60 + 45, 18 * 60 + 59, 19 * 60,
                  21 * 60 + 45}
Saturday == 5 * MinutesPerDay
Sunday == 6 * MinutesPerDay
SlotStarts ==
    {TsCell(m) : m \in MondayMinutes}
        \cup {TsCell(Saturday + 18 * 60 + 30), TsCell(Sunday + 9 * 60 + 45),
              TsCell(Sunday + 21 * 60 + 45), TextCell, NanCell}
SlotWorkbooks ==
    {<<Sheet(SheetName(1), Headers, rows)>> :
        rows \in SeqsUpTo({Row("Incoming", "Asha", c, NanCell, NanCell) : c \in SlotStarts},
                          MaxSlotRows)}

\* SpecTop: one sheet; the duration is one minute, two minutes or empty, and
\* at most MaxTies rows have the same duration.
TopDurations == {StrCell(<<"0", ":", "1", ":", "0">>),
                 StrCell(<<"0", ":", "2", ":", "0">>)}
TopRows ==
    {rows \in SeqsUpTo({Row("Incoming", "Asha", TsCell(Monday0945), NanCell, c) :
                           c \in TopDurations \cup {NanCell}},
                       MaxTopRows) :
        \A c \in TopDurations :
            Cardinality({i \in 1..Len(rows) : rows[i].duration_str = c}) <= MaxTies}
TopWorkbooks == {<<Sheet(SheetName(1), Headers, rows)>> : rows \in TopRows}

\* SpecLoad: up to MaxSheets sheets, each with every column or lacking the
\* start or the duration column; a row has a start, a text for one, or
\* nothing at all.
LoadColumns == {Headers, Headers \ {"Call Start"},
                Headers \ {"Total Call Time (H:m:s)"}}
GoodRow == Row("Incoming", "Asha", TsCell(Monday0945), NanCell, NanCell)
TextRow == Row("Incoming", "Asha", TextCell, NanCell, NanCell)
EmptyRow == Row(NaN, NaN, NanCell, NanCell, NanCell)
LoadRows == {<<>>, <<GoodRow>>, <<TextRow>>, <<TextRow, GoodRow>>,
             <<EmptyRow, GoodRow>>}
LoadSheets(i) ==
    {Sheet(SheetName(i), c, rows) : c \in LoadColumns, rows \in LoadRows}
RECURSIVE LoadBooks(_)
LoadBooks(n) ==
    IF n = 0 THEN {<<>>}
    ELSE {Append(f, sheet) : f \in LoadBooks(n - 1), sheet \in LoadSheets(n)}
LoadWorkbooks == UNION {LoadBooks(n) : n \in 1..MaxSheets}

Next ==
    \/ Upload(FilterWorkbooks)
    \/ \E S \in SUBSET assigned_options : SelectAssigned(S)
    \/ \E S \in SUBSET direction_options : SelectDirection(S)
    \/ RemoveFile

Spec == Init /\ [][Next]_vars

NextDuration ==
    \/ Upload(DurationWorkbooks)
    \/ RemoveFile

SpecDuration == Init /\ [][NextDuration]_vars

NextSlots ==
    \/ Upload(SlotWorkbooks)
    \/ \E S \in SUBSET assigned_options : SelectAssigned(S)
    \/ \E S \in SUBSET direction_options : SelectDirection(S)
    \/ RemoveFile

SpecSlots == Init /\ [][NextSlots]_vars

NextTop ==
    \/ Upload(TopWorkbooks)
    \/ RemoveFile

SpecTop == Init /\ [][NextTop]_vars

NextLoad ==
    \/ Upload(LoadWorkbooks)
    \/ RemoveFile

SpecLoad == Init /\ [][NextLoad]_vars

\* ================================================================ claims
Text(row) == astype_str(row.duration_str)

\* ---- C1 and C8: duration parsing
DigitChars == {"0", "1", "2", "3", "4", "5", "6", "7", "8", "9"}

\* An integer as written: an optional minus sign and one or more digits.
IsIntegerText(t) ==
    \E k \in {0, 1} :
        /\ Len(t) > k
        /\ k = 1 => t[1] = "-"
        /\ \A i \in (k + 1)..Len(t) : t[i] \in DigitChars

RECURSIVE Pow10(_)
Pow10(n) == IF n = 0 THEN 1 ELSE 10 * Pow10(n - 1)

\* The number an integer text writes: the n whose decimal digits are the
\* text's, negated after a minus sign.
IntegerOf(t) ==
    LET k == IF t[1] = "-" THEN 1 ELSE 0
        d == Len(t) - k
        n == CHOOSE n \in 0..(Pow10(d) - 1) :
                 \A i \in 1..d :
                     Digits[((n \div Pow10(d - i)) % 10) + 1] = t[k + i]
    IN  IF k = 1 THEN 0 - n ELSE n

Colons(x) == {i \in 1..Len(x) : x[i] = ":"}

\* "H:M:S": exactly two colons, an integer before, between and after them.
WellFormedHMS(x) ==
    /\ Cardinality(Colons(x)) = 2
    /\ \E i, j \in Colons(x) :
        /\ i < j
        /\ IsIntegerText(SubSeq(x, 1, i - 1))
        /\ IsIntegerText(SubSeq(x, i + 1, j - 1))
        /\ IsIntegerText(SubSeq(x, j + 1, Len(x)))

SecondsOfHMS(x) ==
    LET i == CHOOSE i \in Colons(x) : \A j \in Colons(x) : i <= j
        j == CHOOSE j \in Colons(x) : \A i2 \in Colons(x) : i2 <= j
    IN  IntegerOf(SubSeq(x, 1, i - 1)) * 3600
        + IntegerOf(SubSeq(x, i + 1, j - 1)) * 60
        + IntegerOf(SubSeq(x, j + 1, Len(x)))

\* C1: the duration of every loaded record is h*3600 + m*60 + s when its text
\* is a well-formed "H:M:S", and null when it is not (a wrong number of pieces,
\* a piece that is no integer, an empty or missing cell); parsing never ends
\* the run.
C1_DurationParsed ==
    /\ uploaded_file # None => status = "ok" /\ Len(df) = 1
    /\ \A i \in 1..Len(df) :
        IF WellFormedHMS(Text(df[i]))
        THEN df[i].duration_sec = Some(SecondsOfHMS(Text(df[i])))
        ELSE df[i].duration_sec = None

\* A well-formed text with a leading zero, parsed: "05:7:05" is 18425 s.
C1_Witness ==
    /\ status = "ok"
    /\ \E i \in 1..Len(df) :
        /\ Text(df[i]) = <<"0", "5", ":", "7", ":", "0", "5">>
        /\ df[i].duration_sec = Some(18425)

\* C8: no loaded record has a negative duration.
C8_DurationNonNegative ==
    \A i \in 1..Len(df) :
        df[i].duration_sec # None => df[i].duration_sec[1] >= 0

\* ---- C7: load_excel completes on every workbook it can read
LoadErrors == {"KeyError: 'duration_str'", "KeyError: 'start'", "KeyError: 'end'"}

\* C7: whatever columns the sheets have, load_excel returns a frame: the run
\* never ends with an exception raised in load_excel.
C7_LoadCompletes == status \notin LoadErrors

\* ---- C10: the date column
SheetOf(r) == CHOOSE i \in 1..Len(uploaded_file[1]) : uploaded_file[1][i].name = r.sheet

\* C10: a row of a sheet without a start column has the sheet's name as its
\* date; a row of a sheet with one has the calendar date of its start when the
\* start parses, and a null date, never the sheet's name, when it does not.
C10_DateDerivation ==
    (uploaded_file # None /\ status \notin LoadErrors) =>
        \A i \in 1..Len(df) :
            LET sheet == uploaded_file[1][SheetOf(df[i])]
            IN  IF "Call Start" \notin sheet.columns
                THEN df[i].date = [k |-> "label", v |-> sheet.name]
                ELSE IF df[i].start # NaT
                THEN df[i].date = [k |-> "date", v |-> df[i].start[1] \div (24 * 60)]
                ELSE df[i].date.k = "NaT"

\* One sheet has a start column and a row whose start does not parse, another
\* has no start column.
C10_Witness ==
    /\ uploaded_file # None /\ status \notin LoadErrors
    /\ \E i, j \in 1..Len(df) :
        /\ "Call Start" \in uploaded_file[1][SheetOf(df[i])].columns
        /\ df[i].start = NaT /\ df[i].date.k = "NaT"
        /\ "Call Start" \notin uploaded_file[1][SheetOf(df[j])].columns
        /\ df[j].date.k = "label"
    /\ \E i \in 1..Len(df) : df[i].date.k = "date"

\* ---- C2: the filter
Kept(rows, assigned, direction) ==
    {i \in 1..Len(rows) : rows[i].assigned_to \in assigned /\ rows[i].direction \in direction}

\* C2: the filtered frame holds exactly the records whose user and direction
\* are both selected, unchanged and in their original order; with the default
\* selection (every option) no record with a null user or direction is kept.
C2_FilterExact ==
    status = "ok" =>
        /\ \A j \in 1..Len(filtered_df) :
            /\ filtered_df[j].idx \in 1..Len(df)
            /\ filtered_df[j] = df[filtered_df[j].idx]
        /\ \A j, k \in 1..Len(filtered_df) :
            j < k => filtered_df[j].idx < filtered_df[k].idx
        /\ {filtered_df[j].idx : j \in 1..Len(filtered_df)}
               = Kept(df, assigned_filter, direction_filter)
        /\ (assigned_filter = assigned_options /\ direction_filter = direction_options)
               => \A j \in 1..Len(filtered_df) :
                      filtered_df[j].assigned_to # NaN /\ filtered_df[j].direction # NaN

\* Under the default selection a record with a null user is dropped and the
\* one after it is kept.
C2_Witness ==
    /\ status = "ok"
    /\ assigned_filter = assigned_options /\ direction_filter = direction_options
    /\ Len(df) = 2 /\ df[1].assigned_to = NaN
    /\ Len(filtered_df) = 1 /\ filtered_df[1] = df[2]

\* ---- C3, C9: calls by half-hour slot
\* 09:30 AM, 10:00 AM, ..., 06:30 PM
BusinessSlots ==
    <<[I |-> 9, M |-> 30, p |-> "AM"], [I |-> 10, M |-> 0, p |-> "AM"],
      [I |-> 10, M |-> 30, p |-> "AM"], [I |-> 11, M |-> 0, p |-> "AM"],
      [I |-> 11, M |-> 30, p |-> "AM"], [I |-> 12, M |-> 0, p |-> "PM"],
      [I |-> 12, M |-> 30, p |-> "PM"], [I |-> 1, M |-> 0, p |-> "PM"],
      [I |-> 1, M |-> 30, p |-> "PM"], [I |-> 2, M |-> 0, p |-> "PM"],
      [I |-> 2, M |-> 30, p |-> "PM"], [I |-> 3, M |-> 0, p |-> "PM"],
      [I |-> 3, M |-> 30, p |-> "PM"], [I |-> 4, M |-> 0, p |-> "PM"],
      [I |-> 4, M |-> 30, p |-> "PM"], [I |-> 5, M |-> 0, p |-> "PM"],
      [I |-> 5, M |-> 30, p |-> "PM"], [I |-> 6, M |-> 0, p |-> "PM"],
      [I |-> 6, M |-> 30, p |-> "PM"]>>

\* The minute of the day a label names.
ClockMinute(label) ==
    ((label.I % 12) + (IF label.p = "PM" THEN 12 ELSE 0)) * 60 + label.M

\* The record starts within the half hour that begins at the label's time.
InSlot(r, label) ==
    /\ r.start # NaT
    /\ ClockMinute(label) <= r.start[1] % (24 * 60)
    /\ r.start[1] % (24 * 60) < ClockMinute(label) + 30

RowsAt(frame, label) == {i \in 1..Len(frame) : frame[i].hour_slot = label}

\* The count the frame shows for a slot, 0 when it has no row for it.
CountAt(frame, label) ==
    IF RowsAt(frame, label) = {} THEN 0
    ELSE frame[CHOOSE i \in RowsAt(frame, label) : TRUE].count

RECURSIVE SumCounts(_)
SumCounts(frame) ==
    IF frame = <<>> THEN 0 ELSE Head(frame).count + SumCounts(Tail(frame))

\* C3 as stated: always 19 entries, 09:30 to 18:30 in that order, 0 for a slot
\* no record falls into.
C3_AlwaysNineteen ==
    status = "ok" =>
        /\ Len(calls_by_hour) = 19
        /\ \A i \in 1..Len(calls_by_hour) :
            /\ calls_by_hour[i].hour_slot = BusinessSlots[i]
            /\ calls_by_hour[i].count
                   = Cardinality({j \in 1..Len(filtered_df) :
                                     InSlot(filtered_df[j], BusinessSlots[i])})

\* C3 amended: one entry for each of the 19 slots that some record falls
\* into, with the number of those records, and none for the other slots (no
\* entry at all for the empty record set); the entries are in ascending order
\* of the label text, and the fixed order 09:30 AM .. 06:30 PM is only the
\* category order of the label column.
C3_OnlyOccupiedSlots ==
    status = "ok" =>
        /\ \A i \in 1..Len(BusinessSlots) :
            LET n == Cardinality({j \in 1..Len(filtered_df) :
                                     InSlot(filtered_df[j], BusinessSlots[i])})
            IN  IF n = 0 THEN RowsAt(calls_by_hour, BusinessSlots[i]) = {}
                ELSE /\ Cardinality(RowsAt(calls_by_hour, BusinessSlots[i])) = 1
                     /\ CountAt(calls_by_hour, BusinessSlots[i]) = n
        /\ \A i \in 1..Len(calls_by_hour) :
            /\ calls_by_hour[i].hour_slot \in Range(BusinessSlots)
            /\ calls_by_hour[i].count >= 1
        /\ \A i, j \in 1..Len(calls_by_hour) :
            i < j => LabelLess(calls_by_hour[i].hour_slot, calls_by_hour[j].hour_slot)
        /\ hour_categories = BusinessSlots

\* Two records in two slots: two entries, 06:30 PM before 09:30 AM, and the 17
\* empty slots absent.
C3_Witness ==
    /\ status = "ok"
    /\ Len(filtered_df) = 2
    /\ calls_by_hour = <<[hour_slot |-> [I |-> 6, M |-> 30, p |-> "PM"], count |-> 1],
                         [hour_slot |-> [I |-> 9, M |-> 30, p |-> "AM"], count |-> 1]>>

Workdays == {"Monday", "Tuesday", "Wednesday", "Thursday", "Friday", "Saturday"}

\* Where in the week a day starts, in minutes from Monday 00:00.
DayStart(day) ==
    CASE day = "Monday" -> 0
      [] day = "Tuesday" -> 24 * 60
      [] day = "Wednesday" -> 2 * 24 * 60
      [] day = "Thursday" -> 3 * 24 * 60
      [] day = "Friday" -> 4 * 24 * 60
      [] day = "Saturday" -> 5 * 24 * 60
      [] day = "Sunday" -> 6 * 24 * 60

OnDay(r, day) ==
    /\ r.start # NaT
    /\ DayStart(day) <= r.start[1] % (7 * 24 * 60)
    /\ r.start[1] % (7 * 24 * 60) < DayStart(day) + 24 * 60

\* C6: every cell has a weekday Monday..Saturday and one of the 19 slots; a
\* record is counted in the cell of its weekday and slot iff its start is not
\* null, is on Monday..Saturday and floors to one of the 19 slots; a record
\* that starts on a Sunday is counted nowhere.
C6_HeatmapCells ==
    status = "ok" =>
        /\ \A c \in 1..Len(heatmap_data) :
            /\ heatmap_data[c].dayofweek \in Workdays
            /\ heatmap_data[c].hour_slot \in Range(BusinessSlots)
            /\ heatmap_data[c].count
                   = Cardinality({j \in 1..Len(filtered_df) :
                                     /\ OnDay(filtered_df[j], heatmap_data[c].dayofweek)
                                     /\ InSlot(filtered_df[j], heatmap_data[c].hour_slot)})
            /\ heatmap_data[c].count >= 1
            /\ \A d \in 1..Len(heatmap_data) :
                (/\ heatmap_data[d].dayofweek = heatmap_data[c].dayofweek
                 /\ heatmap_data[d].hour_slot = heatmap_data[c].hour_slot) => d = c
        /\ \A j \in 1..Len(filtered_df) :
            \A day \in Workdays : \A i \in 1..Len(BusinessSlots) :
                (OnDay(filtered_df[j], day) /\ InSlot(filtered_df[j], BusinessSlots[i]))
                    => \E c \in 1..Len(heatmap_data) :
                           /\ heatmap_data[c].dayofweek = day
                           /\ heatmap_data[c].hour_slot = BusinessSlots[i]
        /\ SumCounts(heatmap_data)
               = Cardinality({j \in 1..Len(filtered_df) :
                                 /\ ~OnDay(filtered_df[j], "Sunday")
                                 /\ \E i \in 1..Len(BusinessSlots) :
                                        InSlot(filtered_df[j], BusinessSlots[i])})

\* A Sunday 09:45 call and a Saturday 18:30 call: the one cell is Saturday's.
C6_Witness ==
    /\ status = "ok"
    /\ Len(filtered_df) = 2
    /\ filtered_df[1].start = Some(6 * 24 * 60 + 9 * 60 + 45)
    /\ filtered_df[2].start = Some(5 * 24 * 60 + 18 * 60 + 30)
    /\ heatmap_data = <<[dayofweek |-> "Saturday",
                         hour_slot |-> [I |-> 6, M |-> 30, p |-> "PM"], count |-> 1]>>

\* ---- C4: the average duration
WithDuration(rows) == {j \in 1..Len(rows) : rows[j].duration_sec # None}

RECURSIVE SumOver(_, _)
SumOver(rows, J) ==
    IF J = {} THEN 0
    ELSE LET j == CHOOSE j \in J : TRUE
         IN  rows[j].duration_sec[1] + SumOver(rows, J \ {j})

\* The fraction f is a / b.
IsRatio(f, a, b) == ~f.nan /\ f.num * b = a * f.den

\* C4 as stated: with at least one record the average, in minutes, is the sum
\* of the durations that are not null over the number of ALL records; with no
\* record it is 0.
C4_AverageOverAllRecords ==
    status = "ok" =>
        IF total_calls > 0
        THEN IsRatio(avg_duration,
                     SumOver(filtered_df, WithDuration(filtered_df)),
                     60 * Len(filtered_df))
        ELSE IsRatio(avg_duration, 0, 1)

\* C4 amended: with at least one record that has a duration the average, in
\* minutes, is the sum of the durations that are not null over the number of
\* records that HAVE a duration; with records but no duration at all it is
\* not a number; with no record it is 0.
C4_AverageOverDurations ==
    status = "ok" =>
        /\ total_calls = Len(filtered_df)
        /\ IF total_calls > 0
           THEN IF WithDuration(filtered_df) # {}
                THEN IsRatio(avg_duration,
                             SumOver(filtered_df, WithDuration(filtered_df)),
                             60 * Cardinality(WithDuration(filtered_df)))
                ELSE avg_duration.nan
           ELSE IsRatio(avg_duration, 0, 1)

\* Three records of 60 s, null and 120 s: the average is 1.5 minutes, not 1.
C4_Witness ==
    /\ status = "ok"
    /\ total_calls = 3
    /\ [j \in 1..3 |-> filtered_df[j].duration_sec] = <<Some(60), None, Some(120)>>
    /\ IsRatio(avg_duration, 3, 2)

\* ---- C5: the longest calls
Min(a, b) == IF a < b THEN a ELSE b

\* a is to stand before b: a longer duration first, any duration before none.
Longer(a, b) ==
    /\ a.duration_sec # None
    /\ b.duration_sec = None \/ a.duration_sec[1] > b.duration_sec[1]

\* C5 as stated: min(5, count) records, by duration descending, the records
\* without a duration last, and records of equal duration in their original
\* relative order.
C5_StableTopFive ==
    status = "ok" =>
        /\ Len(top_longest) = Min(5, Len(filtered_df))
        /\ \A i, j \in 1..Len(top_longest) :
            i < j => \/ Longer(top_longest[i], top_longest[j])
                     \/ /\ top_longest[i].duration_sec = top_longest[j].duration_sec
                        /\ top_longest[i].idx < top_longest[j].idx

\* C5 amended: min(5, count) records of the filtered set, none twice, by
\* duration descending, the records without a duration last and in their
\* original relative order, and no record left out is longer than one kept;
\* the order of records of equal duration is not fixed (the sort is not
\* stable).
C5_TopFive ==
    status = "ok" =>
        /\ Len(top_longest) = Min(5, Len(filtered_df))
        /\ \A i \in 1..Len(top_longest) :
            \E j \in 1..Len(filtered_df) : top_longest[i] = filtered_df[j]
        /\ \A i, j \in 1..Len(top_longest) :
            i < j =>
                /\ top_longest[i].idx # top_longest[j].idx
                /\ ~Longer(top_longest[j], top_longest[i])
                /\ (top_longest[i].duration_sec = None /\ top_longest[j].duration_sec = None)
                       => top_longest[i].idx < top_longest[j].idx
        /\ \A j \in 1..Len(filtered_df) :
            (\A i \in 1..Len(top_longest) : top_longest[i] # filtered_df[j])
                => \A i \in 1..Len(top_longest) :
                       /\ ~Longer(filtered_df[j], top_longest[i])
                       /\ (filtered_df[j].duration_sec = None
                           /\ top_longest[i].duration_sec = None)
                              => top_longest[i].idx < filtered_df[j].idx

\* Six records, five shown, and two of equal duration shown in the reverse of
\* their original order.
C5_Witness ==
    /\ status = "ok"
    /\ Len(filtered_df) = 6 /\ Len(top_longest) = 5
    /\ \E i, j \in 1..Len(top_longest) :
        /\ i < j
        /\ top_longest[i].duration_sec # None
        /\ top_longest[i].duration_sec = top_longest[j].duration_sec
        /\ top_longest[i].idx > top_longest[j].idx
    /\ \E i \in 1..Len(top_longest) : top_longest[i].duration_sec = None
====
